---- MODULE Spec2Model ----
(***************************************************************************)
(* GaussianMLPModel (garage/tf/models/gaussian_mlp_model.py).              *)
(*                                                                         *)
(* Real numbers are fixed-point integers in thousandths: One stands for    *)
(* 1.0, so 100 is 0.1 and -2303 is about ln(0.1).  exp and log are         *)
(* computed in that arithmetic (a truncated power series and its inverse), *)
(* on the finite, positive range the model's inputs stay in; NaN and the   *)
(* infinities of floating point are outside the model.                     *)
(* A tensor is a sequence of rows (the batch), each row a sequence of      *)
(* numbers.  An optional value is None or the one-element sequence <<v>>.  *)
(*                                                                         *)
(* The life of one model object: the constructor runs once; _build runs    *)
(* once on a constructed object (it creates the variables of the model)    *)
(* and returns tensors, whose values under the fed batch are kept in out;  *)
(* the optimizer then updates the trainable variables.  The subnetwork     *)
(* builder mlp and the parameter helper are collaborators outside this     *)
(* file and are modelled by their contract.                                *)
(***************************************************************************)
EXTENDS Integers, Sequences, FiniteSets, TLC

\* The literal 1. of the softplus formula, in thousandths.
One == 1000

\* Bounds of the model.
MaxDim == 2
MaxTrain == 1
ExpMax == 7000
ParamBound == 5000

None == <<>>
Some(v) == <<v>>

\* Inputs the operations are called with.
Modes == {"exp", "softplus", "linear"}
StdValues == {100, 1000}
OptStdValues == {None} \cup {Some(v) : v \in StdValues}
HiddenSizes == {<<32, 32>>}
StdHiddenSizes == {<<32, 32>>, <<64>>}
BiasInits == {0, 500}
Inputs == {0, 1000}
Noise == {-1000, 1000}
Deltas == {-5000, 2000}
\* Batches of one and of two rows.
Batches == {<<0>>, <<1000>>, <<0, 1000>>, <<1000, 0>>}
\* One draw per output dimension; the draws of a call are taken equal.
NoiseVectors == {[i \in 1..n |-> z] : n \in 1..MaxDim, z \in Noise}

VARIABLES
    phase,           \* "new", "constructed" or "failed" (the constructor raised)
    error,           \* the exception the constructor raised, or None
    self,            \* the configuration fields __init__ stores (self._*)
    init_std,        \* the init_std argument (used by __init__, not stored)
    init_std_param,  \* self._init_std_param: None or <<v>>
    min_std_param,   \* self._min_std_param
    max_std_param,   \* self._max_std_param
    variables,       \* the TF variables created so far, by name
    trained,         \* number of optimizer updates applied
    out              \* values of the tensors _build returned, or None

vars == <<phase, error, self, init_std, init_std_param, min_std_param,
          max_std_param, variables, trained, out>>

----------------------------------------------------------------------------
\* np.exp / tf.exp and np.log / tf.log in fixed point.

RECURSIVE ExpSeries(_, _, _)
ExpSeries(x, k, term) ==
    IF term = 0 THEN 0
    ELSE term + ExpSeries(x, k + 1, (term * x) \div (k * One))

ExpTable == [x \in 0..ExpMax |-> ExpSeries(x, 1, One)]

exp(x) == IF x >= 0 THEN ExpTable[x] ELSE (One * One) \div ExpTable[-x]

\* The largest x in lo..hi with exp(x) <= y, given exp(lo) <= y.
RECURSIVE LogSearch(_, _, _)
LogSearch(y, lo, hi) ==
    IF lo = hi THEN lo
    ELSE LET mid == (lo + hi + 1) \div 2
         IN  IF ExpTable[mid] <= y THEN LogSearch(y, mid, hi)
                                   ELSE LogSearch(y, lo, mid - 1)

\* Defined for y > 0.
log(y) == IF y >= One THEN LogSearch(y, 0, ExpMax)
                      ELSE -LogSearch((One * One) \div y, 0, ExpMax)

maximum(a, b) == IF a >= b THEN a ELSE b
minimum(a, b) == IF a <= b THEN a ELSE b

\* tf.maximum, tf.minimum and tf.add of a tensor and a scalar, elementwise.
tf_maximum(t, c) == [r \in DOMAIN t |-> [i \in DOMAIN t[r] |-> maximum(t[r][i], c)]]
tf_minimum(t, c) == [r \in DOMAIN t |-> [i \in DOMAIN t[r] |-> minimum(t[r][i], c)]]
tf_add(t, c) == [r \in DOMAIN t |-> [i \in DOMAIN t[r] |-> t[r][i] + c]]

\* tf.log(tf.log(1. + tf.exp(t))), elementwise.
log_softplus(t) ==
    [r \in DOMAIN t |-> [i \in DOMAIN t[r] |-> log(log(One + exp(t[r][i])))]]

----------------------------------------------------------------------------
\* __init__, lines 95-112: the std arguments in parameterized space.
\* raised is TRUE when the mode is unsupported (raise NotImplementedError).

\* A slip: init_std_param is derived before the mode is looked at.
StdParametrizerEager(init, min_std, max_std, std_parameterization) ==
    IF std_parameterization = "exp" THEN
        [init |-> Some(log(init)),
         min  |-> IF min_std # None THEN Some(log(min_std[1])) ELSE None,
         max  |-> IF max_std # None THEN Some(log(max_std[1])) ELSE None,
         raised |-> FALSE]
    ELSE IF std_parameterization = "softplus" THEN
        [init |-> Some(log(exp(init) - One)),
         min  |-> IF min_std # None THEN Some(log(exp(min_std[1]) - One)) ELSE None,
         max  |-> IF max_std # None THEN Some(log(exp(max_std[1]) - One)) ELSE None,
         raised |-> FALSE]
    ELSE [init |-> Some(log(init)), min |-> None, max |-> None, raised |-> TRUE]

\* A slip: the softplus branch forgets the "- 1" for init_std.
StdParametrizerWrong(init, min_std, max_std, std_parameterization) ==
    IF std_parameterization = "exp" THEN
        [init |-> Some(log(init)),
         min  |-> IF min_std # None THEN Some(log(min_std[1])) ELSE None,
         max  |-> IF max_std # None THEN Some(log(max_std[1])) ELSE None,
         raised |-> FALSE]
    ELSE IF std_parameterization = "softplus" THEN
        [init |-> Some(log(exp(init))),
         min  |-> IF min_std # None THEN Some(log(exp(min_std[1]) - One)) ELSE None,
         max  |-> IF max_std # None THEN Some(log(exp(max_std[1]) - One)) ELSE None,
         raised |-> FALSE]
    ELSE [init |-> None, min |-> None, max |-> None, raised |-> TRUE]

StdParametrizer(init, min_std, max_std, std_parameterization) ==
    IF std_parameterization = "exp" THEN
        [init |-> Some(log(init)),
         min  |-> IF min_std # None THEN Some(log(min_std[1])) ELSE None,
         max  |-> IF max_std # None THEN Some(log(max_std[1])) ELSE None,
         raised |-> FALSE]
    ELSE IF std_parameterization = "softplus" THEN
        [init |-> Some(log(exp(init) - One)),
         min  |-> IF min_std # None THEN Some(log(exp(min_std[1]) - One)) ELSE None,
         max  |-> IF max_std # None THEN Some(log(exp(max_std[1]) - One)) ELSE None,
         raised |-> FALSE]
    ELSE [init |-> None, min |-> None, max |-> None, raised |-> TRUE]

Init ==
    /\ phase = "new"
    /\ error = None
    /\ self = None
    /\ init_std = None
    /\ init_std_param = None
    /\ min_std_param = None
    /\ max_std_param = None
    /\ variables = <<>>
    /\ trained = 0
    /\ out = None

__init__(output_dim, hidden_sizes, output_b_init, learn_std, adaptive_std, std_share_network, init, min_std, max_std, std_hidden_sizes, std_parameterization) ==
    /\ phase = "new"
    /\ self' = [_output_dim |-> output_dim,
                _hidden_sizes |-> hidden_sizes,
                _output_b_init |-> output_b_init,
                _learn_std |-> learn_std,
                _adaptive_std |-> adaptive_std,
                _std_share_network |-> std_share_network,
                _std_hidden_sizes |-> std_hidden_sizes,
                _min_std |-> min_std,
                _max_std |-> max_std,
                _std_parameterization |-> std_parameterization]
    /\ init_std' = Some(init)
    /\ LET p == StdParametrizer(init, min_std, max_std, std_parameterization)
       IN  /\ init_std_param' = p.init
           /\ min_std_param' = p.min
           /\ max_std_param' = p.max
           /\ phase' = IF p.raised THEN "failed" ELSE "constructed"
           /\ error' = IF p.raised THEN Some("NotImplementedError") ELSE None
    /\ UNCHANGED <<variables, trained, out>>

----------------------------------------------------------------------------
\* The collaborators of _build (garage.tf.core.mlp, garage.tf.core.parameter).

Const(c, n) == [i \in 1..n |-> c]
Concat(a, b) == [i \in 1..(Len(a) + Len(b)) |->
                    IF i <= Len(a) THEN a[i] ELSE b[i - Len(a)]]

\* The hidden layers of an MLP as a fixed function of the layer spec and
\* the input row.
Trunk(hidden_sizes, x) == (x * Len(hidden_sizes)) \div 2

\* tf.get_variable under variable reuse: an existing variable is kept.
get_variable(store, name, v) ==
    IF name \in DOMAIN store THEN store ELSE store @@ (name :> v)

mlp(store, state_input, output_dim, hidden_sizes, output_b_init, name) ==
    LET s == get_variable(store, name,
                 [kind |-> "mlp", hidden_sizes |-> hidden_sizes,
                  b |-> output_b_init, trainable |-> TRUE])
        v == s[name]
    IN  [store |-> s,
         out |-> [r \in DOMAIN state_input |->
                     [i \in 1..output_dim |->
                         Trunk(v.hidden_sizes, state_input[r]) + v.b[i]]]]

parameter(store, state_input, length, initializer, trainable, name) ==
    LET s == get_variable(store, name,
                 [kind |-> "parameter", hidden_sizes |-> <<>>,
                  b |-> initializer, trainable |-> trainable])
        v == s[name]
    IN  [store |-> s,
         out |-> [r \in DOMAIN state_input |-> [i \in 1..length |-> v.b[i]]]]

----------------------------------------------------------------------------
\* _build, lines 121-184: the mean and the raw std parameter.

\* A slip: the two halves of the bias are concatenated the other way round.
SharedTrunkSwapped(cfg, isp, store, state_input) ==
    LET action_dim == cfg._output_dim
        b == Concat(Const(isp[1], action_dim), Const(0, action_dim))
        mean_std_network ==
            mlp(store, state_input, action_dim * 2, cfg._hidden_sizes,
                b, "mean_std_network")
    IN  [store |-> mean_std_network.store,
         branch |-> "shared",
         mean_network |->
             [r \in DOMAIN state_input |->
                 [i \in 1..action_dim |-> mean_std_network.out[r][i]]],
         log_std_network |->
             [r \in DOMAIN state_input |->
                 [i \in 1..(Len(mean_std_network.out[r]) - action_dim) |->
                     mean_std_network.out[r][action_dim + i]]]]

\* Lines 122-144: mean and std share an MLP.
SharedTrunk(cfg, isp, store, state_input) ==
    LET action_dim == cfg._output_dim
        b == Concat(Const(0, action_dim), Const(isp[1], action_dim))
        mean_std_network ==
            mlp(store, state_input, action_dim * 2, cfg._hidden_sizes,
                b, "mean_std_network")
    IN  [store |-> mean_std_network.store,
         branch |-> "shared",
         mean_network |->
             [r \in DOMAIN state_input |->
                 [i \in 1..action_dim |-> mean_std_network.out[r][i]]],
         log_std_network |->
             [r \in DOMAIN state_input |->
                 [i \in 1..(Len(mean_std_network.out[r]) - action_dim) |->
                     mean_std_network.out[r][action_dim + i]]]]

\* Lines 149-160: the mean network of the separate case.
MeanNetwork(cfg, store, state_input) ==
    mlp(store, state_input, cfg._output_dim, cfg._hidden_sizes,
        Const(cfg._output_b_init, cfg._output_dim), "mean_network")

\* Lines 163-176: the std is a network of its own.
AdaptiveSubnetwork(cfg, isp, store, state_input) ==
    LET mean_network == MeanNetwork(cfg, store, state_input)
        log_std_network ==
            mlp(mean_network.store, state_input, cfg._output_dim,
                cfg._std_hidden_sizes, Const(isp[1], cfg._output_dim),
                "log_std_network")
    IN  [store |-> log_std_network.store,
         branch |-> "adaptive",
         mean_network |-> mean_network.out,
         log_std_network |-> log_std_network.out]

\* A slip: the parameter is built the way the adaptive network is.
FixedParameterAsNetwork(cfg, isp, store, state_input) ==
    LET mean_network == MeanNetwork(cfg, store, state_input)
        log_std_network ==
            mlp(mean_network.store, state_input, cfg._output_dim,
                cfg._std_hidden_sizes, Const(isp[1], cfg._output_dim),
                "log_std_network")
    IN  [store |-> log_std_network.store,
         branch |-> "fixed",
         mean_network |-> mean_network.out,
         log_std_network |-> log_std_network.out]

\* Lines 177-184: the std is a parameter.
FixedParameter(cfg, isp, store, state_input) ==
    LET mean_network == MeanNetwork(cfg, store, state_input)
        log_std_network ==
            parameter(mean_network.store, state_input, cfg._output_dim,
                      Const(isp[1], cfg._output_dim), cfg._learn_std,
                      "log_std_network")
    IN  [store |-> log_std_network.store,
         branch |-> "fixed",
         mean_network |-> mean_network.out,
         log_std_network |-> log_std_network.out]

\* A slip: adaptive_std is looked at before std_share_network.
MeanStdNetworkFactoryAdaptiveFirst(cfg, isp, store, state_input) ==
    IF cfg._adaptive_std THEN AdaptiveSubnetwork(cfg, isp, store, state_input)
    ELSE IF cfg._std_share_network
         THEN SharedTrunk(cfg, isp, store, state_input)
         ELSE FixedParameter(cfg, isp, store, state_input)

MeanStdNetworkFactory(cfg, isp, store, state_input) ==
    IF cfg._std_share_network THEN SharedTrunk(cfg, isp, store, state_input)
    ELSE IF cfg._adaptive_std
         THEN AdaptiveSubnetwork(cfg, isp, store, state_input)
         ELSE FixedParameter(cfg, isp, store, state_input)

\* A slip: the upper bound is applied before the lower bound.
StdClampUpperFirst(std_param, min_param, max_param) ==
    LET upper == IF max_param # None
                 THEN tf_minimum(std_param, max_param[1])
                 ELSE std_param
    IN  IF min_param # None
        THEN tf_maximum(upper, min_param[1])
        ELSE upper

\* A slip: tf.minimum and tf.maximum are exchanged.
StdClampExchanged(std_param, min_param, max_param) ==
    LET lower == IF min_param # None
                 THEN tf_minimum(std_param, min_param[1])
                 ELSE std_param
    IN  IF max_param # None
        THEN tf_maximum(lower, max_param[1])
        ELSE lower

\* A slip: the lower bound is added where tf.maximum is meant.
StdClampAdded(std_param, min_param, max_param) ==
    LET lower == IF min_param # None
                 THEN tf_add(std_param, min_param[1])
                 ELSE std_param
    IN  IF max_param # None
        THEN tf_minimum(lower, max_param[1])
        ELSE lower

\* _build, lines 189-193: the std limits, lower bound first.
StdClamp(std_param, min_param, max_param) ==
    LET lower == IF min_param # None
                 THEN tf_maximum(std_param, min_param[1])
                 ELSE std_param
    IN  IF max_param # None
        THEN tf_minimum(lower, max_param[1])
        ELSE lower

\* A slip: the two branches of the parameterization are exchanged.
LogStdConverterExchanged(std_param, std_parameterization) ==
    IF std_parameterization # "exp" THEN std_param
    ELSE log_softplus(std_param)

\* _build, lines 195-200: the log of the std under the parameterization.
LogStdConverter(std_param, std_parameterization) ==
    IF std_parameterization = "exp" THEN std_param
    ELSE log_softplus(std_param)

\* _build, lines 202-206: rnd has the shape of one row of the mean.
ReparameterizedSampler(rnd, log_std_var, mean_var) ==
    [r \in DOMAIN mean_var |->
        [i \in DOMAIN mean_var[r] |->
            (rnd[i] * exp(log_std_var[r][i])) \div One + mean_var[r][i]]]

\* The whole of _build: the store after it, and the values it returns
\* (with the raw std parameter it clamped).
Forward(cfg, isp, min_param, max_param, store, state_input, rnd) ==
    LET net == MeanStdNetworkFactory(cfg, isp, store, state_input)
        mean_var == net.mean_network
        std_param == StdClamp(net.log_std_network, min_param, max_param)
        log_std_var == LogStdConverter(std_param, cfg._std_parameterization)
    IN  [store |-> net.store,
         out |-> [state_input |-> state_input,
                  rnd |-> rnd,
                  branch |-> net.branch,
                  log_std_network |-> net.log_std_network,
                  action_var |-> ReparameterizedSampler(rnd, log_std_var, mean_var),
                  mean_var |-> mean_var,
                  log_std_var |-> log_std_var,
                  std_param |-> std_param,
                  dist |-> [dim |-> cfg._output_dim]]]

\* A slip: the clamped initial value is written back to the object.
_buildWritesBack(state_input, rnd) ==
    /\ phase = "constructed"
    /\ out = None
    /\ Len(rnd) = self._output_dim
    /\ LET f == Forward(self, init_std_param, min_std_param, max_std_param,
                        variables, state_input, rnd)
       IN  /\ variables' = f.store
           /\ out' = f.out
    /\ init_std_param' =
           IF min_std_param # None
           THEN Some(maximum(init_std_param[1], min_std_param[1]))
           ELSE init_std_param
    /\ UNCHANGED <<phase, error, self, init_std, min_std_param,
                   max_std_param, trained>>

\* _build on a fed batch, with the noise tf.random.normal draws.  It is
\* called once per model instance.
_build(state_input, rnd) ==
    /\ phase = "constructed"
    /\ out = None
    /\ Len(rnd) = self._output_dim
    /\ LET f == Forward(self, init_std_param, min_std_param, max_std_param,
                        variables, state_input, rnd)
       IN  /\ variables' = f.store
           /\ out' = f.out
    /\ UNCHANGED <<phase, error, self, init_std, init_std_param, min_std_param,
                   max_std_param, trained>>

\* network_output_spec, lines 114-116.
output_names == <<"sample", "mean", "log_std", "std_param", "dist">>

network_output_spec ==
    /\ phase = "constructed"
    /\ UNCHANGED vars

\* One update of the trainable variables by the optimizer.  The tensors
\* _build returned are graph nodes, so their values follow the variables.
Train(d) ==
    /\ phase = "constructed"
    /\ out # None
    /\ trained < MaxTrain
    /\ LET s == [n \in DOMAIN variables |->
                    IF variables[n].trainable
                    THEN [variables[n] EXCEPT
                             !.b = [i \in DOMAIN @ |-> @[i] + d]]
                    ELSE variables[n]]
       IN  /\ \A n \in DOMAIN s : \A i \in DOMAIN s[n].b :
                  s[n].b[i] \in -ParamBound..ParamBound
           /\ variables' = s
           /\ out' = Forward(self, init_std_param, min_std_param,
                             max_std_param, s, out.state_input, out.rnd).out
    /\ trained' = trained + 1
    /\ UNCHANGED <<phase, error, self, init_std, init_std_param, min_std_param,
                   max_std_param>>

\* The constructor is called once, with any of the configurations.
Construct ==
    /\ phase = "new"
    /\ \E output_dim \in 1..MaxDim, hidden_sizes \in HiddenSizes,
          output_b_init \in BiasInits, learn_std \in BOOLEAN,
          adaptive_std \in BOOLEAN, std_share_network \in BOOLEAN,
          init \in StdValues, min_std \in OptStdValues,
          max_std \in OptStdValues, std_hidden_sizes \in StdHiddenSizes,
          std_parameterization \in Modes :
            __init__(output_dim, hidden_sizes, output_b_init, learn_std,
                     adaptive_std, std_share_network, init, min_std, max_std,
                     std_hidden_sizes, std_parameterization)

Build ==
    /\ phase = "constructed"
    /\ out = None
    /\ \E state_input \in Batches, rnd \in NoiseVectors :
            _build(state_input, rnd)

Next ==
    \/ Construct
    \/ Build
    \/ network_output_spec
    \/ \E d \in Deltas : Train(d)

Spec == Init /\ [][Next]_vars

----------------------------------------------------------------------------
\* Properties.

Built == phase = "constructed" /\ out # None
Elements == {<<r, i>> : r \in DOMAIN out.std_param, i \in 1..self._output_dim}
Raw(e) == out.log_std_network[e[1]][e[2]]
StdParam(e) == out.std_param[e[1]][e[2]]
BothBounds == min_std_param # None /\ max_std_param # None
Inverted == BothBounds /\ min_std_param[1] > max_std_param[1]

\* What clamping x to the limits lo and hi is to give, by cases: the upper
\* limit when x is above it or the limits are inverted, else the lower limit
\* when x is below it, else x.
ExpectedClamp(x, lo, hi) ==
    IF hi # None /\ (x > hi[1] \/ (lo # None /\ lo[1] > hi[1])) THEN hi[1]
    ELSE IF lo # None /\ x < lo[1] THEN lo[1]
    ELSE x

\* The transform of the mode, applied to a std value.
ExpectedParam(v) ==
    IF self._std_parameterization = "exp" THEN log(v) ELSE log(exp(v) - One)

\* C1: with both limits present and min_std_param > max_std_param, every
\* element of the clamped std_param equals max_std_param, and no error is
\* raised.
C1_InvertedBoundsCollapse ==
    (Built /\ Inverted) =>
        /\ error = None
        /\ \A e \in Elements : StdParam(e) = max_std_param[1]

C1_Witness ==
    /\ Built
    /\ Inverted
    /\ \E e \in Elements : Raw(e) < max_std_param[1]
    /\ \A e \in Elements : StdParam(e) = max_std_param[1]

\* C2: with min_std_param <= max_std_param, or one limit only, every element
\* of std_param is >= min_std_param and <= max_std_param where configured; a
\* raw value below min_std_param comes back as min_std_param, and a raw value
\* inside the limits comes back unchanged.
C2_WithinBounds ==
    (Built /\ ~Inverted) =>
        \A e \in Elements :
            /\ min_std_param # None => StdParam(e) >= min_std_param[1]
            /\ max_std_param # None => StdParam(e) <= max_std_param[1]
            /\ (min_std_param # None /\ Raw(e) < min_std_param[1])
                   => StdParam(e) = min_std_param[1]
            /\ ((min_std_param = None \/ Raw(e) >= min_std_param[1]) /\
                (max_std_param = None \/ Raw(e) <= max_std_param[1]))
                   => StdParam(e) = Raw(e)

\* min_std = 0.1 in mode exp, a raw value of -5.0: clamped to ln(0.1).
C2_Witness ==
    /\ Built
    /\ self._std_parameterization = "exp"
    /\ self._min_std = Some(100)
    /\ max_std_param = None
    /\ min_std_param = Some(-2303)
    /\ \E e \in Elements : Raw(e) = -5000 /\ StdParam(e) = -2303

\* C3: a std_parameterization other than exp and softplus makes the
\* constructor raise, with none of the three derived values set; a
\* constructed model has a supported mode and its init_std_param.
C3_UnsupportedParametrization ==
    /\ (phase # "new" /\ self._std_parameterization \notin {"exp", "softplus"})
           => /\ phase = "failed"
              /\ error = Some("NotImplementedError")
              /\ init_std_param = None
              /\ min_std_param = None
              /\ max_std_param = None
    /\ phase = "constructed"
           => /\ self._std_parameterization \in {"exp", "softplus"}
              /\ error = None
              /\ init_std_param # None

C3_Witness ==
    /\ phase = "failed"
    /\ self._std_parameterization = "linear"
    /\ self._min_std # None
    /\ self._max_std # None

\* C4: init_std_param is ln(init_std) in mode exp and ln(exp(init_std) - 1)
\* in mode softplus; min_std and max_std get the same transform, and a
\* derived limit is None exactly when the configured one is.
C4_StdParametrizer ==
    phase = "constructed" =>
        /\ init_std_param = Some(ExpectedParam(init_std[1]))
        /\ (min_std_param = None) <=> (self._min_std = None)
        /\ (max_std_param = None) <=> (self._max_std = None)
        /\ self._min_std # None
               => min_std_param = Some(ExpectedParam(self._min_std[1]))
        /\ self._max_std # None
               => max_std_param = Some(ExpectedParam(self._max_std[1]))

\* Mode softplus, init_std = 1.0: init_std_param is ln(e - 1), about 0.541.
C4_Witness ==
    /\ phase = "constructed"
    /\ self._std_parameterization = "softplus"
    /\ init_std = Some(One)
    /\ init_std_param = Some(541)
    /\ self._min_std = Some(100)
    /\ min_std_param # None
    /\ max_std_param = None

\* C5: with std_share_network, one subnetwork of width 2 * output_dim is
\* built, its bias initialised to output_dim zeros followed by output_dim
\* copies of init_std_param; the mean is the first output_dim components of
\* its output and the raw std parameter the remaining output_dim.
C5_SharedNetwork ==
    (Built /\ self._std_share_network) =>
        LET D == self._output_dim
            net == variables["mean_std_network"]
            Output(r, k) == Trunk(net.hidden_sizes, out.state_input[r]) + net.b[k]
        IN  /\ DOMAIN variables = {"mean_std_network"}
            /\ Len(net.b) = 2 * D
            /\ trained = 0 =>
                   \A k \in 1..(2 * D) :
                       net.b[k] = IF k <= D THEN 0 ELSE init_std_param[1]
            /\ \A r \in DOMAIN out.state_input :
                   /\ Len(out.mean_var[r]) = D
                   /\ Len(out.log_std_network[r]) = D
                   /\ \A i \in 1..D :
                          /\ out.mean_var[r][i] = Output(r, i)
                          /\ out.log_std_network[r][i] = Output(r, D + i)

C5_Witness ==
    /\ Built
    /\ self._std_share_network
    /\ self._output_dim = 2
    /\ trained = 0
    /\ init_std_param[1] # 0
    /\ variables["mean_std_network"].b = <<0, 0, init_std_param[1], init_std_param[1]>>

\* C6: with adaptive_std and std_share_network both false, std_param and
\* log_std are the same for every row and every input: each element is the
\* clamped value of the parameter vector, and before any training update it
\* is the clamped init_std_param.
C6_StdIndependentOfInput ==
    (Built /\ ~self._std_share_network /\ ~self._adaptive_std) =>
        /\ \A e \in Elements :
               /\ StdParam(e) = ExpectedClamp(variables["log_std_network"].b[e[2]],
                                              min_std_param, max_std_param)
               /\ trained = 0 => StdParam(e) = ExpectedClamp(init_std_param[1],
                                                 min_std_param, max_std_param)
        /\ \A r \in DOMAIN out.std_param :
               /\ out.std_param[r] = out.std_param[1]
               /\ out.log_std_var[r] = out.log_std_var[1]

\* init_std = 1.0, mode exp, no limits, two rows with different inputs:
\* log_std is 0.0 everywhere.
C6_Witness ==
    /\ Built
    /\ ~self._std_share_network
    /\ ~self._adaptive_std
    /\ self._output_dim = 2
    /\ self._std_parameterization = "exp"
    /\ init_std = Some(One)
    /\ min_std_param = None
    /\ max_std_param = None
    /\ trained = 0
    /\ Len(out.state_input) = 2
    /\ out.state_input[1] # out.state_input[2]
    /\ out.mean_var[1] # out.mean_var[2]
    /\ out.log_std_var = <<<<0, 0>>, <<0, 0>>>>

\* C7: in mode exp the returned log_std equals the returned std_param, and
\* that std_param is the clamped raw value.
C7_ExpIdentity ==
    (Built /\ self._std_parameterization = "exp") =>
        /\ out.log_std_var = out.std_param
        /\ \A e \in Elements :
               StdParam(e) = ExpectedClamp(Raw(e), min_std_param, max_std_param)

C7_Witness ==
    /\ Built
    /\ self._std_parameterization = "exp"
    /\ \E e \in Elements : StdParam(e) # Raw(e)
    /\ \E e \in Elements : StdParam(e) # 0

\* C8: clamping the clamped std_param again, with the same limits, changes
\* nothing, whichever limits are configured.
C8_ClampIdempotent ==
    Built => StdClamp(out.std_param, min_std_param, max_std_param) = out.std_param

C8_Witness ==
    /\ Built
    /\ BothBounds
    /\ min_std_param[1] < max_std_param[1]
    /\ Len(out.std_param) = 2
    /\ \E e \in Elements : Raw(e) < min_std_param[1] /\ StdParam(e) = min_std_param[1]

\* C9: once the model is constructed, no operation changes init_std_param,
\* min_std_param, max_std_param or the stored configuration.
C9_BoundsNeverMutated ==
    [][phase = "constructed" =>
          /\ phase' = "constructed"
          /\ init_std_param' = init_std_param
          /\ min_std_param' = min_std_param
          /\ max_std_param' = max_std_param
          /\ self' = self
          /\ init_std' = init_std]_vars

C9_Witness ==
    /\ Built
    /\ trained > 0
    /\ min_std_param # None
    /\ init_std_param[1] < min_std_param[1]

====
